---- MODULE Spec2Model ----
\* A model of the textnonce crate (src/src/lib.rs): TextNonce::new, sized,
\* sized_urlsafe and sized_configured, the raw buffer they build from the
\* clock and from random bytes, and its base64 encoding.
EXTENDS Integers, Sequences, FiniteSets, TLC

----------------------------------------------------------------------------
\* Bounds of the model.

\* the largest length sized, sized_urlsafe and sized_configured are called with
MaxLength == 20
\* the random sources deliver one of the byte streams 0..MaxSeed
MaxSeed == 1
\* threads calling concurrently in ThreadSpec
NThreads == 2

----------------------------------------------------------------------------
\* Program constants.

\* lib.rs:73  if length<16
MinLength == 16
\* lib.rs:74  if length % 4 != 0
Align == 4
\* lib.rs:42  TextNonce::sized(32)
DefaultLength == 32
\* lib.rs:88  copy_nonoverlapping(timep, raw.as_mut_ptr(), 12)
TimeBytes == 12
\* a byte of the Vec<u8> that was never written since set_len (lib.rs:79)
Uninit == -1

ErrTooShort == "length must be >= 16"
ErrNotAligned == "length must be divisible by 4"

----------------------------------------------------------------------------
\* base64::Config values (lib.rs:49-54, 61-66, 72).

NoLineLength == [some |-> FALSE, val |-> 0]
SomeLineLength(n) == [some |-> TRUE, val |-> n]

StandardConfig ==
  [char_set |-> "Standard", newline |-> "LF", pad |-> FALSE,
   line_length |-> NoLineLength]

UrlSafeConfig ==
  [char_set |-> "UrlSafe", newline |-> "LF", pad |-> FALSE,
   line_length |-> NoLineLength]

\* the configurations a caller hands to sized_configured
Configs ==
  { StandardConfig,
    UrlSafeConfig,
    [char_set |-> "Standard", newline |-> "LF", pad |-> TRUE,
     line_length |-> NoLineLength],
    [char_set |-> "UrlSafe", newline |-> "LF", pad |-> TRUE,
     line_length |-> NoLineLength],
    [char_set |-> "Standard", newline |-> "LF", pad |-> FALSE,
     line_length |-> SomeLineLength(4)],
    [char_set |-> "Standard", newline |-> "CRLF", pad |-> TRUE,
     line_length |-> SomeLineLength(8)] }

\* the lengths a caller asks for: some below the floor, all from the floor up
\* to MaxLength, and the length new() asks for
Lengths == {0, 12, 13, 15, 32} \cup (16..MaxLength)

\* the clock readings time::get_time() returns: Timespec { sec: i64, nsec: i32 }
Clocks ==
  { [sec |-> 1, nsec |-> 2],
    [sec |-> 1, nsec |-> 999999999],
    [sec |-> -1478109225, nsec |-> 2] }

Endians == {"little", "big"}

----------------------------------------------------------------------------
\* The base64 encoder: [u8]::to_base64(config).

STANDARD_CHARS ==
  << "A", "B", "C", "D", "E", "F", "G", "H", "I", "J", "K", "L", "M", "N", "O", "P",
     "Q", "R", "S", "T", "U", "V", "W", "X", "Y", "Z", "a", "b", "c", "d", "e", "f",
     "g", "h", "i", "j", "k", "l", "m", "n", "o", "p", "q", "r", "s", "t", "u", "v",
     "w", "x", "y", "z", "0", "1", "2", "3", "4", "5", "6", "7", "8", "9", "+", "/" >>

URLSAFE_CHARS ==
  << "A", "B", "C", "D", "E", "F", "G", "H", "I", "J", "K", "L", "M", "N", "O", "P",
     "Q", "R", "S", "T", "U", "V", "W", "X", "Y", "Z", "a", "b", "c", "d", "e", "f",
     "g", "h", "i", "j", "k", "l", "m", "n", "o", "p", "q", "r", "s", "t", "u", "v",
     "w", "x", "y", "z", "0", "1", "2", "3", "4", "5", "6", "7", "8", "9", "-", "_" >>

PadChar == "="

CharsOf(char_set) ==
  IF char_set = "Standard" THEN STANDARD_CHARS ELSE URLSAFE_CHARS

\* the character of a 6-bit value
enc(config, val) == CharsOf(config.char_set)[val + 1]

NewlineOf(config) ==
  IF config.newline = "LF" THEN << "\n" >> ELSE << "\r", "\n" >>

\* whether a line break goes before the next group
LineBreak(config, cur_length) ==
  config.line_length.some /\ cur_length >= config.line_length.val

\* three bytes become four characters
EncodeGroup(config, first, second, third) ==
  LET n == first * 65536 + second * 256 + third
  IN  << enc(config, (n \div 262144) % 64),
         enc(config, (n \div 4096) % 64),
         enc(config, (n \div 64) % 64),
         enc(config, n % 64) >>

\* the last one or two bytes, padded with '=' when config.pad
EncodeRest(config, self, cur_length) ==
  LET len == Len(self)
      mod_len == len % 3
      brk == IF mod_len # 0 /\ LineBreak(config, cur_length)
               THEN NewlineOf(config) ELSE << >>
  IN  IF mod_len = 0 THEN << >>
      ELSE IF mod_len = 1 THEN
        LET n == self[len] * 65536
        IN  brk \o << enc(config, (n \div 262144) % 64),
                      enc(config, (n \div 4096) % 64) >>
                \o (IF config.pad THEN << PadChar, PadChar >> ELSE << >>)
      ELSE
        LET n == self[len - 1] * 65536 + self[len] * 256
        IN  brk \o << enc(config, (n \div 262144) % 64),
                      enc(config, (n \div 4096) % 64),
                      enc(config, (n \div 64) % 64) >>
                \o (IF config.pad THEN << PadChar >> ELSE << >>)

\* the loop over whole groups; i counts the bytes already encoded
RECURSIVE EncodeFrom(_, _, _, _)
EncodeFrom(config, self, i, cur_length) ==
  LET len == Len(self)
      cond_len == len - (len % 3)
  IN  IF i < cond_len THEN
        LET brk == LineBreak(config, cur_length)
        IN  (IF brk THEN NewlineOf(config) ELSE << >>)
              \o EncodeGroup(config, self[i + 1], self[i + 2], self[i + 3])
              \o EncodeFrom(config, self, i + 3,
                            (IF brk THEN 0 ELSE cur_length) + 4)
      ELSE EncodeRest(config, self, cur_length)

to_base64(self, config) == EncodeFrom(config, self, 0, 0)

----------------------------------------------------------------------------
\* The raw buffer.

\* variant: the factors the wrong way round, (length / 3) * 4
bytelength_swapped(length) == (length \div 3) * 4

\* (length / 4) * 3
bytelength(length) == (length \div 4) * 3

\* Vec::with_capacity(bytelength) followed by set_len(bytelength)
AllocRaw(n) == [i \in 1..n |-> Uninit]

\* byte k (0 = least significant) of a two's complement integer
RECURSIVE ByteOf(_, _)
ByteOf(v, k) == IF k = 0 THEN v % 256 ELSE ByteOf(v \div 256, k - 1)

\* the n bytes of v in the byte order of the target
NativeBytes(v, n, endian) ==
  [i \in 1..n |-> IF endian = "little" THEN ByteOf(v, i - 1)
                                       ELSE ByteOf(v, n - i)]

\* variant: the fields in the other order, nsec at offset 0, padding up to the
\* alignment of sec at offset 8
TimespecImage_nsec_first(t, endian) ==
  NativeBytes(t.nsec, 4, endian) \o << Uninit, Uninit, Uninit, Uninit >>
    \o NativeBytes(t.sec, 8, endian)

\* the 16 bytes of a Timespec in memory: sec: i64 at offset 0, nsec: i32 at
\* offset 8, four bytes of padding
TimespecImage(t, endian) ==
  NativeBytes(t.sec, 8, endian) \o NativeBytes(t.nsec, 4, endian)
    \o << Uninit, Uninit, Uninit, Uninit >>

\* variant: only the 8 bytes of sec are copied
CopyTime_sec_only(buf, t, endian) ==
  LET image == TimespecImage(t, endian)
  IN  [i \in 1..Len(buf) |-> IF i <= 8 THEN image[i] ELSE buf[i]]

\* ptr::copy_nonoverlapping(timep, raw.as_mut_ptr(), 12)
CopyTime(buf, t, endian) ==
  LET image == TimespecImage(t, endian)
  IN  [i \in 1..Len(buf) |-> IF i <= TimeBytes THEN image[i] ELSE buf[i]]

\* byte i of the stream the random source delivers
RandomByte(seed, i) == (seed * 85 + seed * 7 * i) % 256

\* fill_bytes(&mut raw[12..bytelength])
FillBytes(buf, seed) ==
  [i \in 1..Len(buf) |-> IF i > TimeBytes THEN RandomByte(seed, i - TimeBytes)
                                          ELSE buf[i]]

\* who wrote each byte of the buffer
MarkWriter(w, from, to, who) ==
  [i \in 1..Len(w) |-> IF i >= from /\ i <= to THEN who ELSE w[i]]

\* the value of a byte when it is read; an unwritten byte reads as anything
ReadAs(buf, u) == [i \in 1..Len(buf) |-> IF buf[i] = Uninit THEN u ELSE buf[i]]

----------------------------------------------------------------------------
\* State of one call after another (Spec).

VARIABLES
  endian,     \* byte order of the target the crate was built for
  pc,         \* position of the current call inside sized_configured
  op,         \* the entry point that was called
  length,     \* its argument
  config,     \* the base64::Config in use
  raw,        \* the Vec<u8>
  writer,     \* who wrote each byte of raw
  time,       \* what get_time() returned
  os_rng,     \* outcome of OsRng::new(): "none", "ok" or "err"
  result,     \* what the call returned
  prev,       \* the previous value that was returned
\* State of the concurrent callers (ThreadSpec).
  tpc,        \* position of each thread
  tleft,      \* random bytes each thread has still to get
  inside      \* threads inside fill_bytes of each fallback generator

vars == << endian, pc, op, length, config, raw, writer, time, os_rng, result,
           prev, tpc, tleft, inside >>

seqvars == << endian, pc, op, length, config, raw, writer, time, os_rng,
              result, prev >>

thrvars == << tpc, tleft, inside >>

Threads == 1..NThreads

NoTime == [sec |-> 0, nsec |-> 0]
NoResult == [ok |-> FALSE, err |-> "", text |-> << >>]
NoPrev == [valid |-> FALSE, op |-> "", config |-> StandardConfig,
           time |-> NoTime, raw |-> << >>, text |-> << >>]

Init ==
  /\ endian \in Endians
  /\ pc = "idle"
  /\ op = ""
  /\ length = 0
  /\ config = StandardConfig
  /\ raw = << >>
  /\ writer = << >>
  /\ time = NoTime
  /\ os_rng = "none"
  /\ result = NoResult
  /\ prev = NoPrev
  /\ tpc = [t \in Threads |-> "idle"]
  /\ tleft = [t \in Threads |-> 0]
  /\ inside = [g \in Threads |-> {}]

\* the value the finished call leaves behind for later comparison
Returned ==
  IF pc = "done" /\ result.ok
    THEN [valid |-> TRUE, op |-> op, config |-> config, time |-> time,
          raw |-> raw, text |-> result.text]
    ELSE prev

\* entry into sized_configured(len, cfg) from the entry point o
Enter(o, len, cfg) ==
  /\ pc \in {"idle", "done"}
  /\ prev' = Returned
  /\ op' = o
  /\ length' = len
  /\ config' = cfg
  /\ pc' = "check"
  /\ raw' = << >>
  /\ writer' = << >>
  /\ time' = NoTime
  /\ os_rng' = "none"
  /\ result' = NoResult
  /\ UNCHANGED << endian, thrvars >>

\* variant: new() asks for 28 characters
new_28 == Enter("new", 28, StandardConfig)

\* TextNonce::new()
new == Enter("new", DefaultLength, StandardConfig)

\* TextNonce::sized(length)
sized == \E len \in Lengths : Enter("sized", len, StandardConfig)

\* TextNonce::sized_urlsafe(length)
sized_urlsafe ==
  \E len \in Lengths : Enter("sized_urlsafe", len, UrlSafeConfig)

\* TextNonce::sized_configured(length, config)
sized_configured ==
  \E len \in Lengths, cfg \in Configs :
    Enter("sized_configured", len, cfg)

\* variant: the two checks in the other order
CheckLength_align_first(len) ==
  IF len % Align # 0 THEN ErrNotAligned
  ELSE IF len < MinLength THEN ErrTooShort
  ELSE ""

\* the outcome of the two checks: "" when the length passes
CheckLength(len) ==
  IF len < MinLength THEN ErrTooShort
  ELSE IF len % Align # 0 THEN ErrNotAligned
  ELSE ""

\* lib.rs:73-79: the checks, then the allocation
Validate ==
  /\ pc = "check"
  /\ IF CheckLength(length) # ""
       THEN /\ result' = [ok |-> FALSE, err |-> CheckLength(length),
                          text |-> << >>]
            /\ pc' = "done"
            /\ UNCHANGED << raw, writer >>
       ELSE /\ raw' = AllocRaw(bytelength(length))
            /\ writer' = [i \in 1..bytelength(length) |-> "nobody"]
            /\ pc' = "time"
            /\ UNCHANGED result
  /\ UNCHANGED << endian, op, length, config, time, os_rng, prev, thrvars >>

\* lib.rs:85-89: the clock is read and its first 12 bytes are copied
GetTime ==
  /\ pc = "time"
  /\ \E t \in Clocks :
       /\ time' = t
       /\ raw' = CopyTime(raw, t, endian)
  /\ writer' = MarkWriter(writer, 1, TimeBytes, "time")
  /\ pc' = "rand"
  /\ UNCHANGED << endian, op, length, config, os_rng, result, prev, thrvars >>

\* lib.rs:93: OsRng::new() is Ok(g) and g fills the rest
FillOsRng ==
  /\ pc = "rand"
  /\ os_rng' = "ok"
  /\ \E seed \in 0..MaxSeed : raw' = FillBytes(raw, seed)
  /\ writer' = MarkWriter(writer, TimeBytes + 1, Len(raw), "os")
  /\ pc' = "encode"
  /\ UNCHANGED << endian, op, length, config, time, result, prev, thrvars >>

\* variant: OsRng::new() is Err(_) and the error is returned to the caller
FillThreadRng_returns_err ==
  /\ pc = "rand"
  /\ os_rng' = "err"
  /\ result' = [ok |-> FALSE, err |-> "entropy source unavailable",
                text |-> << >>]
  /\ pc' = "done"
  /\ UNCHANGED << endian, op, length, config, raw, writer, time, prev,
                  thrvars >>

\* lib.rs:94: OsRng::new() is Err(_) and thread_rng() fills the rest
FillThreadRng ==
  /\ pc = "rand"
  /\ os_rng' = "err"
  /\ \E seed \in 0..MaxSeed : raw' = FillBytes(raw, seed)
  /\ writer' = MarkWriter(writer, TimeBytes + 1, Len(raw), "thread")
  /\ pc' = "encode"
  /\ UNCHANGED << endian, op, length, config, time, result, prev, thrvars >>

\* lib.rs:98: Ok(TextNonce(raw.to_base64(config)))
Encode ==
  /\ pc = "encode"
  /\ \E u \in {0, 255} :
       result' = [ok |-> TRUE, err |-> "",
                  text |-> to_base64(ReadAs(raw, u), config)]
  /\ pc' = "done"
  /\ UNCHANGED << endian, op, length, config, raw, writer, time, os_rng, prev,
                  thrvars >>

Next ==
  \/ new
  \/ sized
  \/ sized_urlsafe
  \/ sized_configured
  \/ Validate
  \/ GetTime
  \/ FillOsRng
  \/ FillThreadRng
  \/ Encode

Spec == Init /\ [][Next]_vars

----------------------------------------------------------------------------
\* Threads calling sized_configured at the same time (ThreadSpec).

\* variant: one generator for the whole process
thread_rng_shared(t) == 1

\* rand::thread_rng(): the generator kept in the calling thread's local storage
thread_rng(t) == t

\* a thread enters sized_configured with a length that passes the checks and
\* fills the first 12 bytes from the clock (lib.rs:73-89)
TEnter(t) ==
  /\ tpc[t] = "idle"
  /\ \E len \in {l \in Lengths : CheckLength(l) = ""} :
       tleft' = [tleft EXCEPT ![t] = bytelength(len) - TimeBytes]
  /\ tpc' = [tpc EXCEPT ![t] = "rand"]
  /\ UNCHANGED << inside, seqvars >>

\* lib.rs:93: OsRng::new() is Ok(g); the operating system serves the bytes
TOsRng(t) ==
  /\ tpc[t] = "rand"
  /\ tleft' = [tleft EXCEPT ![t] = 0]
  /\ tpc' = [tpc EXCEPT ![t] = "encode"]
  /\ UNCHANGED << inside, seqvars >>

\* lib.rs:94: OsRng::new() is Err(_); fill_bytes starts on thread_rng()
TThreadRng(t) ==
  /\ tpc[t] = "rand"
  /\ inside' = [inside EXCEPT ![thread_rng(t)] = @ \cup {t}]
  /\ tpc' = [tpc EXCEPT ![t] = "fill"]
  /\ UNCHANGED << tleft, seqvars >>

\* fill_bytes draws one byte, which advances the generator's state
TDraw(t) ==
  /\ tpc[t] = "fill"
  /\ tleft[t] > 0
  /\ tleft' = [tleft EXCEPT ![t] = @ - 1]
  /\ UNCHANGED << tpc, inside, seqvars >>

\* fill_bytes returns
TFilled(t) ==
  /\ tpc[t] = "fill"
  /\ tleft[t] = 0
  /\ inside' = [inside EXCEPT ![thread_rng(t)] = @ \ {t}]
  /\ tpc' = [tpc EXCEPT ![t] = "encode"]
  /\ UNCHANGED << tleft, seqvars >>

\* lib.rs:98: the buffer is encoded and the call returns
TReturn(t) ==
  /\ tpc[t] = "encode"
  /\ tpc' = [tpc EXCEPT ![t] = "idle"]
  /\ UNCHANGED << tleft, inside, seqvars >>

ThreadNext ==
  \E t \in Threads :
    \/ TEnter(t)
    \/ TOsRng(t)
    \/ TThreadRng(t)
    \/ TDraw(t)
    \/ TFilled(t)
    \/ TReturn(t)

ThreadSpec == Init /\ [][ThreadNext]_vars

----------------------------------------------------------------------------
\* Properties.

Returns == pc = "done"
ReturnsOk == pc = "done" /\ result.ok
ValidLength(len) == len >= 16 /\ len % 4 = 0

\* the characters of the two base64 alphabets, spelled out
Digits == {"0", "1", "2", "3", "4", "5", "6", "7", "8", "9"}
Letters ==
  {"A", "B", "C", "D", "E", "F", "G", "H", "I", "J", "K", "L", "M",
   "N", "O", "P", "Q", "R", "S", "T", "U", "V", "W", "X", "Y", "Z",
   "a", "b", "c", "d", "e", "f", "g", "h", "i", "j", "k", "l", "m",
   "n", "o", "p", "q", "r", "s", "t", "u", "v", "w", "x", "y", "z"}
AlphabetOf(char_set) ==
  Digits \cup Letters
    \cup (IF char_set = "Standard" THEN {"+", "/"} ELSE {"-", "_"})

\* the random part of a raw buffer
RandomPart(buf) == SubSeq(buf, TimeBytes + 1, Len(buf))
\* the first n characters of a text
Prefix(text, n) == SubSeq(text, 1, n)
\* the bytes of v, least significant first
LittleEndian(v, n) == [i \in 1..n |-> ByteOf(v, i - 1)]

\* C1: sized(length) with a length that is a multiple of 4 and at least 16
\* returns Ok, and the text has exactly length characters.
C1_SizedLength ==
  (Returns /\ op = "sized" /\ ValidLength(length))
    => (result.ok /\ Len(result.text) = length)

C1_Witness ==
  ReturnsOk /\ op = "sized" /\ length = 20 /\ Len(result.text) = 20

\* C2: a length below 16 is refused as too short, also when it is not a
\* multiple of 4; a length of at least 16 that is not a multiple of 4 is
\* refused as not aligned.
C2_ValidationOrder ==
  Returns =>
    /\ length < 16 => (~result.ok /\ result.err = ErrTooShort)
    /\ (length >= 16 /\ length % 4 # 0)
         => (~result.ok /\ result.err = ErrNotAligned)

C2_Witness ==
  Returns /\ op = "sized" /\ length = 15 /\ ~result.ok
    /\ result.err = "length must be >= 16"

\* C3: new() never fails and returns 32 characters; it returns what
\* sized(32) returns on the same clock reading and the same random bytes.
C3_NewIsSized32 ==
  (Returns /\ op = "new") =>
    /\ result.ok
    /\ Len(result.text) = 32
    /\ (prev.valid /\ prev.op = "sized" /\ Len(prev.text) = 32
          /\ prev.time = time /\ RandomPart(prev.raw) = RandomPart(raw))
         => result.text = prev.text

C3_Witness ==
  /\ ReturnsOk /\ op = "new" /\ Len(result.text) = 32
  /\ prev.valid /\ prev.op = "sized" /\ Len(prev.text) = 32
  /\ prev.time = time /\ RandomPart(prev.raw) = RandomPart(raw)
  /\ result.text = prev.text

\* C4: every character of a returned value belongs to the alphabet of the
\* configuration; no padding character and no newline appears in it.
C4_OnlyAlphabet ==
  ReturnsOk =>
    \A i \in 1..Len(result.text) :
      result.text[i] \in AlphabetOf(config.char_set)

C6_TimeLayout ==
  pc \in {"rand", "encode"} =>
    /\ SubSeq(raw, 1, 4) = LittleEndian(time.nsec, 4)
    /\ SubSeq(raw, 5, 12) = LittleEndian(time.sec, 8)

\* C7: two returned values of the same alphabet whose calls observed the same
\* clock reading have the same first 16 characters.
C7_PrefixFromClock ==
  (ReturnsOk /\ prev.valid /\ config.char_set = prev.config.char_set
     /\ time = prev.time)
    => Prefix(result.text, 16) = Prefix(prev.text, 16)

\* C8: no two threads are inside fill_bytes of the same fallback generator
\* at the same time.
C8_NoSharedGenerator ==
  \A g \in Threads : Cardinality(inside[g]) <= 1

C8_Witness ==
  /\ tpc[1] = "fill" /\ tpc[2] = "fill"
  /\ tleft[1] > 0 /\ tleft[2] > 0
  /\ 1 \in inside[thread_rng(1)] /\ 2 \in inside[thread_rng(2)]

C10_FullyWritten ==
  /\ pc = "time" => Len(raw) >= TimeBytes
  /\ pc = "encode" =>
       /\ Len(raw) = (length \div 4) * 3
       /\ \A i \in 1..Len(raw) :
            /\ raw[i] # Uninit
            /\ i <= 12 => writer[i] = "time"
            /\ i > 12 => writer[i] \in {"os", "thread"}

C10_Witness ==
  /\ pc = "encode" /\ length = 16 /\ Len(raw) = 12
  /\ \A i \in 1..12 : raw[i] # Uninit /\ writer[i] = "time"

====
